---- MODULE Spec2Model ----
(***************************************************************************)
(* Model of buddy-timelapse: PrintMonitor (src/src/monitor/index.ts) and   *)
(* TimelapseCapture / assembleVideo (src/src/timelapse/index.ts).          *)
(*                                                                         *)
(* The program is one Node.js event loop.  Every action below is one       *)
(* macrotask: a timer firing, a promise of an HTTP call settling, or a     *)
(* child-process event being delivered, followed by all the synchronous    *)
(* code (and already-settled awaits) that runs before the next real await. *)
(* An invocation of checkStatus, or a handlePrintFinished started by the   *)
(* watchdog without being awaited, is a "task" parked at an await point.   *)
(***************************************************************************)
EXTENDS Integers, FiniteSets, Sequences, TLC

\* ---------------------------------------------------------------- bounds
MaxTasks == 2      \* async invocations that may be in flight together
MaxProcs == 3      \* capture subprocesses spawned in one run
MaxFrame == 1      \* highest frame number a capture writes
MaxJob   == 1      \* job identifiers reported by the printer: 0..MaxJob
MaxTime  == 3      \* interval ticks fired (time is counted in poll intervals)

\* ------------------------------------------------------- program constants
PollInterval    == 1   \* config.pollInterval, the unit of time of the model
WatchdogSetting == 2   \* a positive config.watchdogTimeout, in poll intervals

\* the values of config.watchdogTimeout (the loader does not validate it):
\* negative, 0 (documented as "disabled") and a positive one
WatchdogTimeouts == {-1, 0, WatchdogSetting}

Null == -1             \* null / undefined of a numeric field

TaskIds == 1..MaxTasks   \* slots of checkStatus invocations
ShutdownTask == 0        \* slot of the shutdown handler of index.ts
AllTasks == {ShutdownTask} \cup TaskIds
Pids    == 1..MaxProcs
Files   == 0..MaxFrame \* img_<n>.jpg; 0 also stands for a matching file
                       \* whose stem parses to 0 or does not parse

\* PrinterState (src/src/timelapse/index.ts:306-315): the active value and
\* two of the non-active values.
PrinterState == {"PRINTING", "IDLE", "PAUSED"}

\* status.job?.id as received: Null when the field is absent
RawJobIds == {Null} \cup (0..MaxJob)

VARIABLES
    mainPc,               \* "init" | "running" | "exited" (index.ts main)
    now,                  \* Date.now(), in poll intervals
    watchdogTimeout,      \* config.watchdogTimeout
    isMonitoring,
    monitoringInterval,   \* TRUE iff the setInterval timer is installed
    lastPrinterState,
    currentPrintId,
    currentPrintFilename, \* TRUE iff a display name is recorded
    isFirstCheck,
    watchdogExpiry,
    isCapturing,
    captureProcess,       \* pid of the ChildProcess handle, or Null
    procs,                \* the capture subprocesses spawned so far
    frames,               \* the frame files in tempDir
    tasks,                \* the async invocations parked at an await
    staleTimers,          \* 5 s timers of stopCapture calls already resolved
    asmCount,             \* assembleVideo calls made for each capture period
    lastTransition        \* the last transition the monitor processed:
                          \* "none" | "start" | "stop"

vars == << mainPc, now, watchdogTimeout, isMonitoring, monitoringInterval,
           lastPrinterState, currentPrintId, currentPrintFilename,
           isFirstCheck, watchdogExpiry, isCapturing, captureProcess,
           procs, frames, tasks, staleTimers, asmCount, lastTransition >>

\* The state as one record, so that a method is an operator from state to
\* state and a handler is the composition of the methods it calls.
Cur ==
    [ mainPc |-> mainPc, now |-> now, watchdogTimeout |-> watchdogTimeout,
      isMonitoring |-> isMonitoring, monitoringInterval |-> monitoringInterval,
      lastPrinterState |-> lastPrinterState, currentPrintId |-> currentPrintId,
      currentPrintFilename |-> currentPrintFilename,
      isFirstCheck |-> isFirstCheck, watchdogExpiry |-> watchdogExpiry,
      isCapturing |-> isCapturing, captureProcess |-> captureProcess,
      procs |-> procs, frames |-> frames, tasks |-> tasks,
      staleTimers |-> staleTimers, asmCount |-> asmCount,
      lastTransition |-> lastTransition, threw |-> FALSE ]

\* The end of a turn of the event loop.  A rejection that nothing caught
\* reaches the unhandledRejection handler, which exits (index.ts:99-102).
Commit(s) ==
    /\ mainPc' = IF s.threw THEN "exited" ELSE s.mainPc
    /\ now' = s.now
    /\ watchdogTimeout' = s.watchdogTimeout
    /\ isMonitoring' = s.isMonitoring
    /\ monitoringInterval' = s.monitoringInterval
    /\ lastPrinterState' = s.lastPrinterState
    /\ currentPrintId' = s.currentPrintId
    /\ currentPrintFilename' = s.currentPrintFilename
    /\ isFirstCheck' = s.isFirstCheck
    /\ watchdogExpiry' = s.watchdogExpiry
    /\ isCapturing' = s.isCapturing
    /\ captureProcess' = s.captureProcess
    /\ procs' = s.procs
    /\ frames' = s.frames
    /\ tasks' = s.tasks
    /\ staleTimers' = s.staleTimers
    /\ asmCount' = s.asmCount
    /\ lastTransition' = s.lastTransition

\* ------------------------------------------------------------------ tasks
\* pc: "idle" (free slot), "getStatus", "getJob", "stopWait", "assemble",
\* "notify"; "ret" marks, inside one action, a handler that has returned.
IdleTask ==
    [ pc |-> "idle", origin |-> "check", initial |-> FALSE, first |-> FALSE,
      currentState |-> "IDLE", currentJobId |-> Null,
      jobId |-> Null, shouldResume |-> FALSE, stopProc |-> Null ]

NoProc ==
    [ status |-> "none", arg |-> FALSE, existing |-> 0, start |-> 0,
      next |-> 0, job |-> Null, stopped |-> FALSE, waiters |-> << >> ]

Max(S) == CHOOSE x \in S : \A y \in S : y <= x

\* ------------------------------------------- TimelapseCapture: frame files
getCapturedFrameCount(s) == Cardinality(s.frames)

\* canResume with an off-by-one threshold
canResume_MoreThanOne(s) == getCapturedFrameCount(s) > 1

canResume(s) == getCapturedFrameCount(s) > 0

\* parseInt of the digits of img_<n>.jpg; 0 when the name does not parse
FrameNumber(f) == f

\* getHighestFrameNumber taking the number of frames for the highest number
getHighestFrameNumber_Count(s) == Cardinality(s.frames)

getHighestFrameNumber(s) ==
    IF s.frames = {} THEN 0 ELSE Max({FrameNumber(f) : f \in s.frames})

clearFrames(s) == [s EXCEPT !.frames = {}]

clearTempDirectory(s) == clearFrames(s)

\* ------------------------------------- TimelapseCapture: the subprocess
\* status of a capture subprocess:
\*   "none"    not spawned yet
\*   "running" the ffmpeg process is alive
\*   "failed"  spawn() returned a handle but the process could not be
\*             started (ffmpeg missing, not executable); no 'exit' follows
\*   "exited"  the process has terminated; 'exit' not delivered yet
\*   "reaped"  the 'exit' event has been delivered
\* arg is resumeIfPossible, existing the existingFrameCount that startCapture
\* read, start the -start_number, next the number of the
\* next frame the process writes, job the job the monitor started it for
\* (Null when started by another caller), stopped whether a stopCapture call has put
\* its 'exit' listener on the handle, waiters the stopCapture calls whose
\* promise is still pending, in the order they registered.
Spawned(s) == {p \in Pids : s.procs[p].status # "none"}

NextPid(s) == Cardinality(Spawned(s)) + 1

\* ChildProcess.kill(): the signal reaches a process that is still alive.
\* SIGTERM asks ffmpeg to finish (it exits in a later step, or hangs);
\* SIGKILL ends it at once.
kill(s, p, sig) ==
    IF sig = "SIGKILL" /\ s.procs[p].status = "running"
    THEN [s EXCEPT !.procs[p].status = "exited"]
    ELSE s

\* startCapture resuming whenever frames exist, whatever resumeIfPossible is
startCapture_AlwaysResume(s, resumeIfPossible, spawnOk) ==
    IF s.isCapturing
    THEN [s EXCEPT !.threw = TRUE]
    ELSE LET existingFrameCount == getCapturedFrameCount(s)
             isResuming == existingFrameCount > 0
             startNumber == IF isResuming THEN getHighestFrameNumber(s) + 1
                                          ELSE 1
             s1 == IF isResuming THEN s ELSE clearTempDirectory(s)
             p  == NextPid(s)
         IN  [s1 EXCEPT !.captureProcess = p,
                        !.isCapturing = TRUE,
                        !.procs[p] = [ status |-> IF spawnOk THEN "running"
                                                             ELSE "failed",
                                       arg |-> resumeIfPossible,
                                       existing |-> existingFrameCount,
                                       start |-> startNumber,
                                       next |-> startNumber,
                                       job |-> Null,
                                       stopped |-> FALSE,
                                       waiters |-> << >> ]]

\* spawnOk is the environment's answer: whether ffmpeg could be started.
startCapture(s, resumeIfPossible, spawnOk) ==
    IF s.isCapturing
    THEN [s EXCEPT !.threw = TRUE]
    ELSE LET existingFrameCount == getCapturedFrameCount(s)
             isResuming == resumeIfPossible /\ existingFrameCount > 0
             startNumber == IF isResuming THEN getHighestFrameNumber(s) + 1
                                          ELSE 1
             s1 == IF isResuming THEN s ELSE clearTempDirectory(s)
             p  == NextPid(s)
         IN  [s1 EXCEPT !.captureProcess = p,
                        !.isCapturing = TRUE,
                        !.procs[p] = [ status |-> IF spawnOk THEN "running"
                                                             ELSE "failed",
                                       arg |-> resumeIfPossible,
                                       existing |-> existingFrameCount,
                                       start |-> startNumber,
                                       next |-> startNumber,
                                       job |-> Null,
                                       stopped |-> FALSE,
                                       waiters |-> << >> ]]

\* stopCapture up to its await: task t is the caller.  pc "stopped" marks a
\* call that returned without waiting.
stopCapture(s, t) ==
    IF ~s.isCapturing \/ s.captureProcess = Null
    THEN [s EXCEPT !.tasks[t].pc = "stopped"]
    ELSE LET p  == s.captureProcess
             s1 == kill(s, p, "SIGTERM")
         IN  [s1 EXCEPT !.procs[p].stopped = TRUE,
                        !.procs[p].waiters = Append(@, t),
                        !.tasks[t].pc = "stopWait",
                        !.tasks[t].stopProc = p]

isCurrentlyCapturing(s) == s.isCapturing

\* ------------------------------------------------ PrintMonitor: watchdog
\* startWatchdog without the test of the setting
startWatchdog_NoGuard(s, jobId) ==
    [s EXCEPT !.watchdogExpiry = s.now + s.watchdogTimeout]

startWatchdog(s, jobId) ==
    IF s.watchdogTimeout <= 0
    THEN s
    ELSE [s EXCEPT !.watchdogExpiry = s.now + s.watchdogTimeout]

resetWatchdog(s) ==
    IF s.watchdogTimeout <= 0 \/ ~isCurrentlyCapturing(s)
    THEN s
    ELSE [s EXCEPT !.watchdogExpiry = s.now + s.watchdogTimeout]

clearWatchdog(s) == [s EXCEPT !.watchdogExpiry = Null]

\* ------------------------------------------ PrintMonitor: stop sequence
stopTimelapseCapture(s, t) == stopCapture(s, t)

\* assembleVideo up to the wait for the encoder: it rejects at once when
\* there is no frame, else the encoder runs (pc "assemble").  The call is
\* counted against the capture period whose stop preceded it.
assembleVideo(s, t) ==
    LET p  == s.tasks[t].stopProc
        s1 == IF p = Null THEN s ELSE [s EXCEPT !.asmCount[p] = @ + 1]
    IN  IF getCapturedFrameCount(s1) = 0
        THEN [s1 EXCEPT !.threw = TRUE]
        ELSE [s1 EXCEPT !.tasks[t].pc = "assemble"]

\* handlePrintFinished from the resolution of stopCapture to the next await
\* (lines 205-224): a rejected assembly is caught, the finally block clears
\* the filename and the handler returns (pc "ret").
afterStop(s, t) ==
    LET s1 == assembleVideo(s, t)
    IN  IF s1.threw
        THEN [s1 EXCEPT !.threw = FALSE,
                        !.currentPrintFilename = FALSE,
                        !.tasks[t].pc = "ret"]
        ELSE s1

\* handlePrintFinished that leaves the watchdog deadline in place
handlePrintFinished_KeepDeadline(s, t, jobId) ==
    LET s1 == [s EXCEPT !.tasks[t].jobId = jobId,
                        !.lastTransition = "stop"]
    IN  IF ~isCurrentlyCapturing(s1)
        THEN [s1 EXCEPT !.currentPrintFilename = FALSE,
                        !.tasks[t].pc = "ret"]
        ELSE LET s2 == stopTimelapseCapture(s1, t)
             IN  IF s2.tasks[t].pc = "stopped" THEN afterStop(s2, t) ELSE s2

\* handlePrintFinished acting on the last command instead of the flag
handlePrintFinished_NoReread(s, t, jobId) ==
    LET s1 == clearWatchdog([s EXCEPT !.tasks[t].jobId = jobId,
                                      !.lastTransition = "stop"])
        s2 == stopTimelapseCapture(s1, t)
    IN  IF s2.tasks[t].pc = "stopped" THEN afterStop(s2, t) ELSE s2

\* handlePrintFinished from its entry to its first await
handlePrintFinished(s, t, jobId) ==
    LET s1 == clearWatchdog([s EXCEPT !.tasks[t].jobId = jobId,
                                      !.lastTransition = "stop"])
    IN  IF ~isCurrentlyCapturing(s1)
        THEN [s1 EXCEPT !.currentPrintFilename = FALSE,
                        !.tasks[t].pc = "ret"]
        ELSE LET s2 == stopTimelapseCapture(s1, t)
             IN  IF s2.tasks[t].pc = "stopped" THEN afterStop(s2, t) ELSE s2

\* checkWatchdog that never finds the deadline passed
checkWatchdog_NeverExpires(s, t) == s

\* checkWatchdog, called as the last statement of a checkStatus whose slot
\* t is free again: an expiry starts handlePrintFinished without awaiting
\* it, and that invocation lives on in slot t.
checkWatchdog(s, t) ==
    IF \/ s.watchdogTimeout <= 0
       \/ ~isCurrentlyCapturing(s)
       \/ s.watchdogExpiry = Null
    THEN s
    ELSE IF s.now >= s.watchdogExpiry
         THEN LET s1 == [s EXCEPT !.tasks[t] =
                            [IdleTask EXCEPT !.origin = "watchdog"]]
                  s2 == handlePrintFinished(s1, t, s.currentPrintId)
              IN  IF s2.tasks[t].pc = "ret"
                  THEN [s2 EXCEPT !.tasks[t] = IdleTask]
                  ELSE s2
         ELSE s

\* checkStatus lines 127-131, and startMonitoring lines 45-49 when this was
\* the initial check: the invocation is over, slot t is free.
checkStatusTail(s, t) ==
    LET tk == s.tasks[t]
        s1 == [s EXCEPT !.lastPrinterState = tk.currentState,
                        !.currentPrintId = tk.currentJobId,
                        !.monitoringInterval = IF tk.initial THEN TRUE ELSE @,
                        !.tasks[t] = IdleTask]
    IN  checkWatchdog(s1, t)

\* the catch block of checkStatus counting the failed poll as the first one
checkStatusCatch_ClearsFirstCheck(s, t) ==
    LET tk == s.tasks[t]
        s1 == [s EXCEPT !.monitoringInterval = IF tk.initial THEN TRUE ELSE @,
                        !.isFirstCheck = FALSE,
                        !.tasks[t] = IdleTask]
    IN  checkWatchdog(s1, t)

\* checkStatus letting the failure of the status fetch escape
checkStatusCatch_Rethrow(s, t) ==
    [s EXCEPT !.threw = TRUE, !.tasks[t] = IdleTask]

\* the catch block of checkStatus without its watchdog check
checkStatusCatch_NoWatchdog(s, t) ==
    LET tk == s.tasks[t]
    IN  [s EXCEPT !.monitoringInterval = IF tk.initial THEN TRUE ELSE @,
                  !.tasks[t] = IdleTask]

\* checkStatus lines 132-142: the status fetch failed
checkStatusCatch(s, t) ==
    LET tk == s.tasks[t]
        s1 == [s EXCEPT !.monitoringInterval = IF tk.initial THEN TRUE ELSE @,
                        !.tasks[t] = IdleTask]
    IN  checkWatchdog(s1, t)

\* A handler has returned (pc "ret"): control is back in its caller.
Return(s, t) ==
    IF s.tasks[t].pc # "ret"
    THEN s
    ELSE IF s.tasks[t].origin = "check"
         THEN checkStatusTail(s, t)
         ELSE IF s.tasks[t].origin = "shutdown"
              THEN [s EXCEPT !.tasks[t] = IdleTask, !.mainPc = "exited"]
              ELSE [s EXCEPT !.tasks[t] = IdleTask]

\* ------------------------------------------------ PrintMonitor: start
\* handlePrintStarted without its test for a running capture
handlePrintStarted_NoGuard(s, t, jobId, shouldResume) ==
    [s EXCEPT !.tasks[t].pc = "getJob",
              !.tasks[t].jobId = jobId,
              !.tasks[t].shouldResume = shouldResume]

\* handlePrintStarted from its entry to the await of getJob
handlePrintStarted(s, t, jobId, shouldResume) ==
    IF isCurrentlyCapturing(s)
    THEN [s EXCEPT !.tasks[t].pc = "ret"]
    ELSE [s EXCEPT !.tasks[t].pc = "getJob",
                   !.tasks[t].jobId = jobId,
                   !.tasks[t].shouldResume = shouldResume]

\* 'error' of capture subprocess p is delivered (timelapse lines 79-82)
onError(s, p) ==
    [s EXCEPT !.isCapturing = FALSE,
              !.procs[p] = [NoProc EXCEPT !.status = "failed",
                                          !.arg = s.procs[p].arg,
                                          !.start = s.procs[p].start,
                                          !.job = s.procs[p].job]]

\* handlePrintStarted lines 159-181, after getJob resolved.  Node emits the
\* 'error' of a failed spawn from process.nextTick, that is in this same
\* turn of the event loop, after the continuation of the await at line 177.
afterGetJob(s, t, hasName, spawnOk) ==
    LET tk == s.tasks[t]
        s1 == IF hasName THEN [s EXCEPT !.currentPrintFilename = TRUE] ELSE s
        s2 == IF tk.shouldResume /\ canResume(s1)
              THEN s1
              ELSE IF ~tk.shouldResume THEN clearFrames(s1) ELSE s1
        s3 == startCapture(s2, tk.shouldResume, spawnOk)
        s4 == IF s3.threw
              THEN [s3 EXCEPT !.threw = FALSE]
              ELSE [startWatchdog(s3, tk.jobId) EXCEPT
                        !.procs[s3.captureProcess].job = tk.jobId,
                        !.lastTransition = "start"]
        s5 == IF ~s3.threw /\ ~spawnOk
              THEN onError(s4, s4.captureProcess)
              ELSE s4
    IN  [s5 EXCEPT !.tasks[t].pc = "ret"]

\* currentJobId = status.job?.id || null: an absent id and the id 0 are null
JobIdOf(raw) == IF raw = Null \/ raw = 0 THEN Null ELSE raw

\* checkStatus lines 74-125, after getStatus resolved
checkStatus(s, t, currentState, raw) ==
    LET currentJobId  == JobIdOf(raw)
        previousState == s.lastPrinterState
        s0 == [s EXCEPT !.tasks[t].currentState = currentState,
                        !.tasks[t].currentJobId = currentJobId,
                        !.tasks[t].pc = "ret"]
    IN  IF s0.isFirstCheck
        THEN LET s1 == [s0 EXCEPT !.isFirstCheck = FALSE,
                                  !.tasks[t].first = TRUE]
             IN  IF currentState = "PRINTING" /\ currentJobId # Null
                 THEN IF canResume(s1)
                      THEN handlePrintStarted(s1, t, currentJobId, TRUE)
                      ELSE handlePrintStarted(s1, t, currentJobId, FALSE)
                 ELSE IF canResume(s1) THEN clearFrames(s1) ELSE s1
        ELSE IF /\ previousState # "PRINTING"
                /\ currentState = "PRINTING"
                /\ currentJobId # Null
             THEN handlePrintStarted(s0, t, currentJobId, FALSE)
             ELSE IF previousState = "PRINTING" /\ currentState # "PRINTING"
                  THEN handlePrintFinished(s0, t, currentJobId)
                  ELSE IF /\ isCurrentlyCapturing(s0)
                          /\ currentState = "PRINTING"
                       THEN resetWatchdog(s0)
                       ELSE s0

\* The stopCapture promise task t awaits has resolved: handlePrintFinished
\* goes on to the assembly; stopMonitoring (lines 66-68) returns to the
\* shutdown handler, which exits the process (index.ts:42-49), or to the
\* client that called it.
stopResolved(s, t) ==
    IF s.tasks[t].origin \in {"shutdown", "client"}
    THEN [s EXCEPT !.tasks[t].pc = "ret"]
    ELSE afterStop(s, t)

\* stopMonitoring from its entry to its await; t is the shutdown slot
stopMonitoring(s, t) ==
    IF ~s.isMonitoring
    THEN [s EXCEPT !.tasks[t].pc = "ret"]
    ELSE LET s1 == [s EXCEPT !.isMonitoring = FALSE,
                             !.monitoringInterval = FALSE]
         IN  IF isCurrentlyCapturing(s1)
             THEN LET s2 == stopTimelapseCapture(s1, t)
                  IN  IF s2.tasks[t].pc = "stopped"
                      THEN [s2 EXCEPT !.tasks[t].pc = "ret"]
                      ELSE s2
             ELSE [s1 EXCEPT !.tasks[t].pc = "ret"]

\* The stopCapture promises listed in w resolve, in order, and each caller
\* runs on to its next await.
RECURSIVE ResumeAll(_, _)
ResumeAll(s, w) ==
    IF w = << >>
    THEN s
    ELSE LET t == Head(w)
         IN  ResumeAll(Return(stopResolved(s, t), t), Tail(w))

\* 'exit' of capture subprocess p is delivered: the listener of startCapture
\* (lines 84-89), then the listeners of the stopCapture calls (lines 115-119).
\* Nothing refers to what the record of p held once its listeners have run.
onExit(s, p) ==
    LET pr == s.procs[p]
        s1 == [s EXCEPT !.isCapturing = FALSE,
                        !.procs[p] = [NoProc EXCEPT !.status = "reaped",
                                                    !.job = pr.job]]
        s2 == IF pr.stopped
              THEN [s1 EXCEPT !.captureProcess = Null,
                              !.staleTimers = @ + Len(pr.waiters)]
              ELSE s1
    IN  ResumeAll(s2, pr.waiters)

\* the 5 s timer killing the subprocess without clearing isCapturing
forceKill_KeepFlag(s) ==
    LET s1 == IF s.captureProcess # Null
              THEN kill(s, s.captureProcess, "SIGKILL")
              ELSE s
    IN  [s1 EXCEPT !.captureProcess = Null]

\* the body of the 5 s timer of stopCapture (lines 122-129), before resolve()
forceKill(s) ==
    LET s1 == IF s.captureProcess # Null
              THEN kill(s, s.captureProcess, "SIGKILL")
              ELSE s
    IN  [s1 EXCEPT !.isCapturing = FALSE, !.captureProcess = Null]

Remove(w, t) == SelectSeq(w, LAMBDA x : x # t)

\* the timer of the stopCapture call task t is waiting in
onStopTimeout(s, t) ==
    LET p  == s.tasks[t].stopProc
        s1 == forceKill(s)
        s2 == [s1 EXCEPT !.procs[p].waiters = Remove(@, t)]
    IN  Return(stopResolved(s2, t), t)

\* the encoder of assembleVideo exits (lines 290-301), then handlePrintFinished
\* lines 209-213 on success, lines 216-224 on failure
onAssembleExit(s, t, ok) ==
    IF ok
    THEN [clearFrames(s) EXCEPT !.tasks[t].pc = "notify"]
    ELSE Return([s EXCEPT !.currentPrintFilename = FALSE,
                          !.tasks[t].pc = "ret"], t)

\* sendNotification once its command has exited: ok is exit code 0; any
\* other outcome rejects the inner promise, which the catch block of lines
\* 290-293 swallows.
sendNotification(s, ok) ==
    LET s1 == IF ok THEN s ELSE [s EXCEPT !.threw = TRUE]
    IN  [s1 EXCEPT !.threw = FALSE]

\* the notification command exits, then handlePrintFinished lines 215-224
onNotifyExit(s, t, ok) ==
    Return([sendNotification(s, ok) EXCEPT !.currentPrintFilename = FALSE,
                                           !.tasks[t].pc = "ret"], t)

FreeSlots == {t \in TaskIds : tasks[t].pc = "idle"}

LowestFree == CHOOSE x \in FreeSlots : \A y \in FreeSlots : x <= y

Init ==
    /\ mainPc = "init"
    /\ now = 0
    /\ watchdogTimeout \in WatchdogTimeouts
    /\ isMonitoring = FALSE
    /\ monitoringInterval = FALSE
    /\ lastPrinterState = "null"
    /\ currentPrintId = Null
    /\ currentPrintFilename = FALSE
    /\ isFirstCheck = TRUE
    /\ watchdogExpiry = Null
    /\ isCapturing = FALSE
    /\ captureProcess = Null
    /\ procs = [p \in Pids |-> NoProc]
    /\ frames \in SUBSET Files
    /\ tasks = [t \in AllTasks |-> IdleTask]
    /\ staleTimers = 0
    /\ asmCount = [p \in Pids |-> 0]
    /\ lastTransition = "none"

\* ----------------------------------------------------------------- actions
\* main (src/src/index.ts:57): startMonitoring up to the await of the
\* initial checkStatus, which awaits getStatus.
StartMonitoring ==
    /\ mainPc = "init"
    /\ ~isMonitoring
    /\ Commit([Cur EXCEPT !.mainPc = "running",
                          !.isMonitoring = TRUE,
                          !.tasks[1] = [IdleTask EXCEPT !.pc = "getStatus",
                                                        !.initial = TRUE]])

\* the setInterval callback (monitor lines 45-49): one poll interval has
\* passed and a new checkStatus starts, whatever the earlier ones are doing.
IntervalTickUntil(limit) ==
    /\ mainPc = "running"
    /\ monitoringInterval
    /\ now < limit
    /\ FreeSlots # {}
    /\ LET t == LowestFree
       IN  Commit([Cur EXCEPT !.now = @ + PollInterval,
                              !.tasks[t] = [IdleTask EXCEPT !.pc = "getStatus"]])

IntervalTick == IntervalTickUntil(MaxTime)

GetStatusResolve(t) ==
    /\ mainPc = "running"
    /\ tasks[t].pc = "getStatus"
    /\ \E currentState \in PrinterState, raw \in RawJobIds :
           Commit(Return(checkStatus(Cur, t, currentState, raw), t))

GetStatusReject(t) ==
    /\ mainPc = "running"
    /\ tasks[t].pc = "getStatus"
    /\ Commit(checkStatusCatch(Cur, t))

GetJobResolve(t) ==
    /\ mainPc = "running"
    /\ tasks[t].pc = "getJob"
    /\ isCapturing \/ NextPid(Cur) <= MaxProcs
    /\ \E hasName \in BOOLEAN, spawnOk \in BOOLEAN :
           Commit(Return(afterGetJob(Cur, t, hasName, spawnOk), t))

\* getJob rejects: caught at lines 182-186, the capture is not started
GetJobReject(t) ==
    /\ mainPc = "running"
    /\ tasks[t].pc = "getJob"
    /\ Commit(Return([Cur EXCEPT !.tasks[t].pc = "ret"], t))

\* the capture subprocess writes its next frame file
WriteFrame(p) ==
    /\ mainPc = "running"
    /\ procs[p].status = "running"
    /\ procs[p].next <= MaxFrame
    /\ Commit([Cur EXCEPT !.frames = @ \cup {procs[p].next},
                          !.procs[p].next = @ + 1])

\* the capture subprocess terminates: on SIGTERM, or on its own
CaptureExits(p) ==
    /\ mainPc = "running"
    /\ procs[p].status = "running"
    /\ Commit([Cur EXCEPT !.procs[p].status = "exited"])

ExitEvent(p) ==
    /\ mainPc = "running"
    /\ procs[p].status = "exited"
    /\ Commit(onExit(Cur, p))

\* SIGINT or SIGTERM reaches the service (index.ts:38-53).  A signal that
\* arrives while an earlier shutdown is still waiting finds isMonitoring
\* false, so its stopMonitoring returns at once and the process exits.
Shutdown ==
    /\ mainPc \in {"init", "running"}
    /\ LET t  == ShutdownTask
           s1 == IF tasks[t].pc = "idle"
                 THEN [Cur EXCEPT !.tasks[t].origin = "shutdown"]
                 ELSE Cur
           s2 == stopMonitoring(s1, t)
       IN  IF tasks[t].pc = "idle"
           THEN Commit(Return(s2, t))
           ELSE Commit([Cur EXCEPT !.mainPc = "exited"])

StopTimeout(t) ==
    /\ mainPc = "running"
    /\ tasks[t].pc = "stopWait"
    /\ Commit(onStopTimeout(Cur, t))

\* the timer of a stopCapture call that has already resolved through 'exit'
StaleStopTimeout ==
    /\ mainPc = "running"
    /\ staleTimers > 0
    /\ Commit([forceKill(Cur) EXCEPT !.staleTimers = @ - 1])

AssembleExit(t) ==
    /\ mainPc = "running"
    /\ tasks[t].pc = "assemble"
    /\ \E ok \in BOOLEAN : Commit(onAssembleExit(Cur, t, ok))

NotifyExit(t) ==
    /\ mainPc = "running"
    /\ tasks[t].pc = "notify"
    /\ \E ok \in BOOLEAN : Commit(onNotifyExit(Cur, t, ok))

Next ==
    \/ StartMonitoring
    \/ IntervalTick
    \/ \E t \in TaskIds : GetStatusResolve(t)
    \/ \E t \in TaskIds : GetStatusReject(t)
    \/ \E t \in TaskIds : GetJobResolve(t)
    \/ \E t \in TaskIds : GetJobReject(t)
    \/ \E p \in Pids : WriteFrame(p)
    \/ \E p \in Pids : CaptureExits(p)
    \/ \E p \in Pids : ExitEvent(p)
    \/ \E t \in AllTasks : StopTimeout(t)
    \/ StaleStopTimeout
    \/ \E t \in TaskIds : AssembleExit(t)
    \/ \E t \in TaskIds : NotifyExit(t)

\* --------------------------------------- TimelapseCapture used on its own
\* startCapture and clearFrames of one TimelapseCapture object called in
\* any order by a client, on every frame set, with the subprocesses writing
\* frames and exiting as in the service.
InitCapture ==
    /\ mainPc = "running"
    /\ now = 0
    /\ watchdogTimeout = 0
    /\ isMonitoring = FALSE
    /\ monitoringInterval = FALSE
    /\ lastPrinterState = "null"
    /\ currentPrintId = Null
    /\ currentPrintFilename = FALSE
    /\ isFirstCheck = TRUE
    /\ watchdogExpiry = Null
    /\ isCapturing = FALSE
    /\ captureProcess = Null
    /\ procs = [p \in Pids |-> NoProc]
    /\ frames \in SUBSET Files
    /\ tasks = [t \in AllTasks |-> IdleTask]
    /\ staleTimers = 0
    /\ asmCount = [p \in Pids |-> 0]
    /\ lastTransition = "none"

ApiStartCapture ==
    /\ isCapturing \/ NextPid(Cur) <= MaxProcs
    /\ \E resumeIfPossible \in BOOLEAN, spawnOk \in BOOLEAN :
           LET s1 == startCapture(Cur, resumeIfPossible, spawnOk)
           IN  IF s1.threw
               THEN Commit([s1 EXCEPT !.threw = FALSE])
               ELSE IF spawnOk THEN Commit(s1)
                               ELSE Commit(onError(s1, s1.captureProcess))

ApiClearFrames == Commit(clearFrames(Cur))

NextCapture ==
    \/ ApiStartCapture
    \/ ApiClearFrames
    \/ \E p \in Pids : WriteFrame(p)
    \/ \E p \in Pids : CaptureExits(p)
    \/ \E p \in Pids : ExitEvent(p)

SpecCapture == InitCapture /\ [][NextCapture]_vars

\* the service while no shutdown signal arrives
Spec == Init /\ [][Next]_vars

\* the service with SIGINT / SIGTERM arriving at any moment
NextShutdown == Next \/ Shutdown

\* ------------------------------------------ PrintMonitor used on its own
\* stopMonitoring called by a client of the class that goes on running
\* afterwards (index.ts exits the process instead); the call occupies the
\* slot of the shutdown handler.
StopMonitoringCall ==
    /\ mainPc = "running"
    /\ isMonitoring
    /\ tasks[ShutdownTask].pc = "idle"
    /\ LET t  == ShutdownTask
           s1 == [Cur EXCEPT !.tasks[t].origin = "client"]
       IN  Commit(Return(stopMonitoring(s1, t), t))

NextMonitor == Next \/ StopMonitoringCall

SpecMonitor == Init /\ [][NextMonitor]_vars

SpecShutdown == Init /\ [][NextShutdown]_vars

\* The service during an outage: once the first poll has been processed no
\* poll observes the active state any more (the status fetch fails, or
\* reports a non-active value).  Timers fire, requests settle (the HTTP
\* client has a timeout) and delivered events are handled, but a capture
\* subprocess need neither write a frame nor ever exit on its own.
GetStatusResolveOutage(t) ==
    /\ mainPc = "running"
    /\ tasks[t].pc = "getStatus"
    /\ \E currentState \in PrinterState, raw \in RawJobIds :
           /\ isFirstCheck \/ currentState # "PRINTING"
           /\ Commit(Return(checkStatus(Cur, t, currentState, raw), t))

NextOutage ==
    \/ StartMonitoring
    \/ IntervalTick
    \/ \E t \in TaskIds : GetStatusResolveOutage(t)
    \/ \E t \in TaskIds : GetStatusReject(t)
    \/ \E t \in TaskIds : GetJobResolve(t)
    \/ \E t \in TaskIds : GetJobReject(t)
    \/ \E p \in Pids : WriteFrame(p)
    \/ \E p \in Pids : CaptureExits(p)
    \/ \E p \in Pids : ExitEvent(p)
    \/ \E t \in AllTasks : StopTimeout(t)
    \/ StaleStopTimeout
    \/ \E t \in TaskIds : AssembleExit(t)
    \/ \E t \in TaskIds : NotifyExit(t)

\* the steps of the outage that are bound to happen: a timer fires, a
\* request fails or times out, a delivered event is handled
OutageProgress ==
    \/ StartMonitoring
    \/ IntervalTick
    \/ \E t \in TaskIds : GetStatusReject(t)
    \/ \E t \in TaskIds : GetJobReject(t)
    \/ \E p \in Pids : ExitEvent(p)
    \/ \E t \in AllTasks : StopTimeout(t)
    \/ \E t \in TaskIds : AssembleExit(t)
    \/ \E t \in TaskIds : NotifyExit(t)

\* ENABLED <<OutageProgress>>_vars, from the guards of its actions
OutageProgressEnabled ==
    \/ mainPc = "init" /\ ~isMonitoring
    \/ /\ mainPc = "running"
       /\ \/ monitoringInterval /\ now < MaxTime /\ FreeSlots # {}
          \/ \E t \in TaskIds :
                 tasks[t].pc \in {"getStatus", "getJob", "assemble", "notify"}
          \/ \E t \in AllTasks : tasks[t].pc = "stopWait"
          \/ \E p \in Pids : procs[p].status = "exited"

\* weak fairness of OutageProgress, spelled out
SpecOutage ==
    /\ Init
    /\ [][NextOutage]_vars
    /\ ([]<>(~OutageProgressEnabled) \/ []<><<OutageProgress>>_vars)

\* The service with the watchdog enabled, followed for one poll interval
\* more than in Spec.
LongRun == MaxTime + 1

InitLongRun == Init /\ watchdogTimeout = WatchdogSetting

IntervalTickLongRun == IntervalTickUntil(LongRun)

NextLongRun ==
    \/ StartMonitoring
    \/ IntervalTickLongRun
    \/ \E t \in TaskIds : GetStatusResolve(t)
    \/ \E t \in TaskIds : GetStatusReject(t)
    \/ \E t \in TaskIds : GetJobResolve(t)
    \/ \E t \in TaskIds : GetJobReject(t)
    \/ \E p \in Pids : WriteFrame(p)
    \/ \E p \in Pids : CaptureExits(p)
    \/ \E p \in Pids : ExitEvent(p)
    \/ \E t \in AllTasks : StopTimeout(t)
    \/ StaleStopTimeout
    \/ \E t \in TaskIds : AssembleExit(t)
    \/ \E t \in TaskIds : NotifyExit(t)

SpecLongRun == InitLongRun /\ [][NextLongRun]_vars

\* ------------------------------------------------------------ properties
TypeOK ==
    /\ isCapturing \in BOOLEAN
    /\ captureProcess \in Pids \cup {Null}
    /\ frames \subseteq Files
    /\ lastPrinterState \in PrinterState \cup {"null"}
    /\ watchdogExpiry \in {Null} \cup (0..(LongRun + WatchdogSetting))

\* the checkStatus invocations in progress
Polling == {t \in TaskIds : tasks[t].pc # "idle" /\ tasks[t].origin = "check"}

\* no invocation of the monitor is in progress: every tick has completed
Quiescent == \A t \in TaskIds : tasks[t].pc = "idle"

\* p is spawned in this step
SpawnedNow(p) == procs[p].status = "none" /\ procs'[p].status # "none"

\* C1: at most one capture subprocess is alive in every reachable state.
C1_AtMostOneCapture ==
    Cardinality({p \in Pids : procs[p].status = "running"}) <= 1

\* C2: isCapturing is true iff a live capture handle exists.  Stated up to
\* the delivery delay of 'exit': a capturing monitor holds a handle whose
\* exit it has not seen, and a handle whose process runs means capturing.
C2_CapturingIffLiveHandle ==
    /\ isCapturing =>
           /\ captureProcess # Null
           /\ procs[captureProcess].status \in {"running", "exited"}
    /\ (captureProcess # Null /\ procs[captureProcess].status = "running")
           => isCapturing

C4_OneAssemblyPerPeriod == \A p \in Pids : asmCount[p] <= 1

\* C5: at most one checkStatus invocation is in progress at any instant.
C5_NoOverlappingTicks == Cardinality(Polling) <= 1

\* C6: no assembly runs while a capture subprocess of the same job is alive.
C6_AssemblyAfterCaptureStopped ==
    \A t \in TaskIds :
        tasks[t].pc = "assemble" =>
            \A p \in Pids :
                procs[p].status = "running" =>
                    procs[p].job # procs[tasks[t].stopProc].job

\* C7: a startCapture(resumeIfPossible = true) that finds at least one frame
\* file launches the subprocess at the highest existing frame number plus
\* one, above every existing frame number, and deletes no frame file.
C7_ResumeProperty ==
    [][ \A p \in Pids :
            (SpawnedNow(p) /\ procs'[p].arg /\ frames # {}) =>
                /\ frames \subseteq frames'
                /\ \A f \in frames : FrameNumber(f) < procs'[p].start
                /\ \E f \in frames : procs'[p].start = FrameNumber(f) + 1
      ]_vars

C7_Witness ==
    \E p \in Pids :
        /\ procs[p].status = "running"
        /\ procs[p].arg
        /\ procs[p].existing > 1
        /\ procs[p].start = 2

\* C8: a startCapture(resumeIfPossible = false) leaves no frame file at the
\* launch of the subprocess and launches it with start number 1.
C8_FreshStartProperty ==
    [][ \A p \in Pids :
            (SpawnedNow(p) /\ ~procs'[p].arg) =>
                /\ frames' = {}
                /\ procs'[p].start = 1
      ]_vars

C8_Witness ==
    \E p \in Pids :
        /\ procs[p].status = "running"
        /\ ~procs[p].arg
        /\ procs[p].existing > 0
        /\ procs[p].start = 1

\* C9: the first poll that reports active with a job identifier starts the
\* capture, resuming above the existing frames when there are any and fresh
\* at frame 1 otherwise, and arms the watchdog when it is enabled.
C9_FirstPollActive ==
    [][ \A t \in TaskIds :
            (tasks[t].pc = "getJob" /\ tasks[t].first
                                   /\ tasks'[t].pc # "getJob") =>
                \E p \in Pids :
                    /\ SpawnedNow(p)
                    /\ procs'[p].arg = tasks[t].shouldResume
                    /\ tasks[t].shouldResume =>
                           /\ frames \subseteq frames'
                           /\ \A f \in frames :
                                  FrameNumber(f) < procs'[p].start
                           /\ \E f \in frames :
                                  procs'[p].start = FrameNumber(f) + 1
                    /\ ~tasks[t].shouldResume => procs'[p].start = 1
                    /\ watchdogTimeout > 0 =>
                           watchdogExpiry' = now + watchdogTimeout
      ]_vars

\* C10: the first poll that reports a non-active state starts no capture,
\* leaves the monitor idle (not capturing, no watchdog deadline) and leaves
\* no frame file of an earlier run.
C10_FirstPollInactive ==
    [][ ( /\ isFirstCheck
          /\ ~isFirstCheck'
          /\ lastPrinterState' \in PrinterState \ {"PRINTING"} ) =>
            /\ procs' = procs
            /\ ~isCapturing'
            /\ watchdogExpiry' = Null
            /\ frames' = {}
      ]_vars

C10_Witness ==
    /\ ~isFirstCheck
    /\ lastPrinterState \in PrinterState \ {"PRINTING"}
    /\ lastTransition = "none"
    /\ now = 0
    /\ Quiescent
    /\ ~isCapturing
    /\ watchdogExpiry = Null
    /\ frames = {}

\* C11: the stop sequence of a poll runs in order: the watchdog is cleared
\* before the stop is requested, the assembly starts only once the stopped
\* capture is no longer running, the notification is invoked only after a
\* successful assembly with the frames deleted, and when the sequence ends
\* isCapturing is false and the frame directory is empty.
C11_StopSequenceOrder ==
    [][ \A t \in TaskIds :
            /\ (tasks[t].pc # "stopWait" /\ tasks'[t].pc = "stopWait") =>
                   watchdogExpiry' = Null
            /\ (tasks[t].pc # "assemble" /\ tasks'[t].pc = "assemble") =>
                   /\ tasks'[t].stopProc # Null
                   /\ procs'[tasks'[t].stopProc].status # "running"
            /\ (tasks[t].pc # "notify" /\ tasks'[t].pc = "notify") =>
                   /\ tasks[t].pc = "assemble"
                   /\ frames' = {}
            /\ (tasks[t].pc = "notify" /\ tasks'[t].pc # "notify") =>
                   /\ ~isCapturing'
                   /\ frames' = {}
      ]_vars

\* C12: when the stop sequence fails (assembleVideo rejects for lack of
\* frames, or the encoder exits non-zero) the frames are left as they are,
\* no notification is invoked and isCapturing is false afterwards; and a
\* poll that observes the active state makes no assembly attempt.
C12_FailedStopSequence ==
    [][ \A t \in TaskIds :
            /\ ( /\ tasks[t].pc = "assemble"
                 /\ tasks'[t].pc \notin {"assemble", "notify"} ) =>
                   /\ frames' = frames
                   /\ ~isCapturing'
            /\ ( /\ asmCount' # asmCount
                 /\ tasks[t].pc \in {"getStatus", "stopWait"}
                 /\ tasks'[t].pc \notin {"getStatus", "stopWait", "assemble"} ) =>
                   /\ frames' = frames
                   /\ tasks'[t].pc # "notify"
                   /\ ~isCapturing'
            /\ ( /\ tasks[t].pc = "getStatus"
                 /\ tasks'[t].pc = "getJob" ) =>
                   asmCount' = asmCount
      ]_vars

\* C13: watchdog liveness.  With the watchdog enabled, an armed deadline on
\* a running capture that has passed is acted upon by the tick that finds it
\* (it survives only while a tick is still in progress), and during an
\* outage every capture whose deadline falls within the ticks that fire is
\* in the end force-stopped and its stop / assemble sequence run, unless
\* the subprocess ended on its own.
C13_WatchdogLiveness ==
    /\ [] ( ( /\ watchdogTimeout > 0
              /\ isCapturing
              /\ watchdogExpiry # Null
              /\ now >= watchdogExpiry ) => Polling # {} )
    /\ <>[] ( \A p \in Pids :
                ( /\ watchdogTimeout > 0
                  /\ procs[p].status \notin {"none", "failed"} ) =>
                    \/ asmCount[p] > 0
                    \/ procs[p].status = "reaped"
                    \/ watchdogExpiry # Null /\ watchdogExpiry > MaxTime )

C13_Witness ==
    \E t \in TaskIds, p \in Pids :
        /\ tasks[t].origin = "watchdog"
        /\ tasks[t].pc \in {"assemble", "notify"}
        /\ tasks[t].stopProc = p
        /\ asmCount[p] = 1
        /\ lastPrinterState = "PRINTING"
        /\ now >= WatchdogSetting

\* C14: watchdog idempotence.  A check triggers the forced completion only
\* with a deadline in place that has passed (never before it), at most one
\* completion is triggered at a time, and the trigger clears the deadline,
\* so that no later check triggers again before a new arm or reset.
C14_WatchdogIdempotence ==
    [][ LET Triggered == {t \in TaskIds : /\ tasks[t].origin # "watchdog"
                                          /\ tasks'[t].origin = "watchdog"}
        IN  /\ Cardinality(Triggered) <= 1
            /\ Triggered # {} =>
                   /\ watchdogTimeout > 0
                   /\ watchdogExpiry # Null
                   /\ now' >= watchdogExpiry
                   /\ watchdogExpiry' = Null
            /\ ( /\ watchdogExpiry # Null
                 /\ watchdogExpiry' = watchdogExpiry
                 /\ now' < watchdogExpiry ) => Triggered = {}
      ]_vars

C14_Witness ==
    \E t \in TaskIds :
        /\ tasks[t].origin = "watchdog"
        /\ tasks[t].pc = "stopWait"
        /\ \A u \in TaskIds \ {t} : tasks[u].pc = "idle"
        /\ isCapturing
        /\ watchdogExpiry = Null
        /\ now = MaxTime

\* C15: when the shutdown has completed and the process has exited, no
\* capture subprocess is alive and the manager holds no handle of a live
\* subprocess, at whatever moment the signal arrived.
C15_ShutdownStopsCapture ==
    mainPc = "exited" =>
        /\ \A p \in Pids : procs[p].status # "running"
        /\ ~isCapturing

\* C16: when the service exits on a signal received during a capture that
\* has produced frames, the video of that capture has been assembled and
\* the frame files have been removed.
C16_ShutdownCompletesTimelapse ==
    [][ ( /\ mainPc = "running"
          /\ mainPc' = "exited"
          /\ tasks[ShutdownTask].pc = "stopWait"
          /\ frames # {} ) =>
            /\ asmCount'[tasks[ShutdownTask].stopProc] > 0
            /\ frames' = {}
      ]_vars

\* C17: without a shutdown signal the service never exits, whatever fails
\* inside a tick, and once the initial check is over the monitor keeps its
\* polling timer.
C17_TickNeverStopsService ==
    /\ mainPc # "exited"
    /\ (mainPc = "running" /\ \A t \in TaskIds : ~tasks[t].initial) =>
           isMonitoring /\ monitoringInterval

C17_Witness ==
    /\ mainPc = "running"
    /\ monitoringInterval
    /\ Quiescent
    /\ \E p \in Pids : procs[p].status = "failed"
    /\ \E p \in Pids : asmCount[p] > 0 /\ frames # {}

\* C18: with watchdogTimeout <= 0 the watchdog is disabled: no deadline is
\* ever set and no forced completion is ever started.
C18_WatchdogDisabled ==
    watchdogTimeout <= 0 =>
        /\ watchdogExpiry = Null
        /\ \A t \in TaskIds : tasks[t].origin # "watchdog"

C18_Witness ==
    /\ watchdogTimeout < 0
    /\ now = MaxTime
    /\ Quiescent
    /\ isCapturing
    /\ lastPrinterState = "PRINTING"
    /\ procs[1].status = "running"
    /\ procs[2].status = "none"
    /\ watchdogExpiry = Null

\* the state with every non-active value replaced by one of them
Normalize(s) ==
    [s EXCEPT !.lastPrinterState =
                  IF @ \in {"PRINTING", "null"} THEN @ ELSE "IDLE",
              !.tasks = [t \in AllTasks |->
                  [s.tasks[t] EXCEPT !.currentState =
                       IF @ = "PRINTING" THEN @ ELSE "IDLE"]]]

\* C19: the non-active values are interchangeable (a poll does the same
\* whichever non-active value it observes and whichever was observed
\* before), and the stop path is run by one invocation per capture.
C19_NonActiveEquivalent ==
    /\ \A t \in TaskIds :
           tasks[t].pc = "getStatus" =>
               \A raw \in RawJobIds, a, b \in PrinterState \ {"PRINTING"} :
                   Normalize(Return(checkStatus(Cur, t, a, raw), t))
                     = Normalize(Return(checkStatus(Normalize(Cur), t, b, raw), t))
    /\ \A p \in Pids :
           Cardinality({t \in TaskIds : /\ tasks[t].pc = "stopWait"
                                        /\ tasks[t].stopProc = p}) <= 1

\* C20: in steady state, a poll that observes the active state with a job
\* identifier after a non-active one, while nothing is capturing, starts the
\* capture fresh (no frame file left, start number 1, never a resume) and
\* arms the watchdog, when it is enabled, at now + timeout.
C20_SteadyStateFreshStart ==
    [][ \A t \in TaskIds :
            ( /\ tasks[t].pc = "getJob"
              /\ ~tasks[t].first
              /\ tasks'[t].pc # "getJob"
              /\ ~isCapturing ) =>
                \E p \in Pids :
                    /\ SpawnedNow(p)
                    /\ ~procs'[p].arg
                    /\ procs'[p].start = 1
                    /\ frames' = {}
                    /\ watchdogTimeout > 0 =>
                           watchdogExpiry' = now + watchdogTimeout
      ]_vars

\* C21: heartbeat.  A poll that observes the active state while a capture is
\* running extends the watchdog deadline to now + timeout (when the watchdog
\* is enabled) and does nothing else: no start, no stop, no assembly, no
\* frame deleted, the capture subprocess untouched.
C21_Heartbeat ==
    \A t \in TaskIds :
        (tasks[t].pc = "getStatus" /\ isCapturing /\ ~isFirstCheck) =>
            \A raw \in RawJobIds :
                LET r == Return(checkStatus(Cur, t, "PRINTING", raw), t)
                IN  /\ watchdogTimeout > 0 =>
                           r.watchdogExpiry = now + watchdogTimeout
                    /\ r.tasks[t].pc = "idle"
                    /\ r.procs = procs
                    /\ r.frames = frames
                    /\ r.asmCount = asmCount
                    /\ r.isCapturing
                    /\ r.captureProcess = captureProcess

\* C22: a watchdog check that finds the deadline passed while capturing runs
\* the stop sequence with the job identifier the monitor last recorded (the
\* stop of the current capture is requested and the deadline cleared in the
\* step of the trigger), whatever the device reports, and when that
\* sequence is over the deadline is none.
C22_WatchdogForcesStop ==
    [][ \A t \in TaskIds :
            /\ (tasks[t].origin # "watchdog" /\ tasks'[t].origin = "watchdog") =>
                   /\ tasks'[t].pc = "stopWait"
                   /\ tasks'[t].jobId = currentPrintId'
                   /\ tasks'[t].stopProc = captureProcess
                   /\ procs'[captureProcess].stopped
                   /\ watchdogExpiry' = Null
            /\ (tasks[t].origin = "watchdog" /\ tasks'[t].pc = "idle") =>
                   watchdogExpiry' = Null
      ]_vars

\* C23: a poll whose status fetch fails leaves lastPrinterState,
\* currentPrintId, isFirstCheck, the capture state and the frames as they
\* are, and still checks the watchdog: a passed deadline on a running
\* capture starts the forced completion, otherwise nothing changes.
C23_FetchFailure ==
    \A t \in TaskIds :
        tasks[t].pc = "getStatus" =>
            LET r == checkStatusCatch(Cur, t)
                expired == /\ watchdogTimeout > 0
                           /\ isCapturing
                           /\ watchdogExpiry # Null
                           /\ now >= watchdogExpiry
            IN  /\ r.lastPrinterState = lastPrinterState
                /\ r.currentPrintId = currentPrintId
                /\ r.isFirstCheck = isFirstCheck
                /\ r.isCapturing = isCapturing
                /\ r.captureProcess = captureProcess
                /\ r.frames = frames
                /\ r.asmCount = asmCount
                /\ ~r.threw
                /\ expired => /\ r.tasks[t].origin = "watchdog"
                              /\ r.tasks[t].pc = "stopWait"
                              /\ r.watchdogExpiry = Null
                /\ ~expired => /\ r.tasks[t] = IdleTask
                               /\ r.procs = procs
                               /\ r.watchdogExpiry = watchdogExpiry

C23_Witness ==
    \E t \in TaskIds :
        /\ tasks[t].origin = "watchdog"
        /\ tasks[t].pc = "stopWait"
        /\ lastPrinterState = "PRINTING"
        /\ currentPrintId # Null
        /\ isCapturing
        /\ frames # {}
        /\ now = WatchdogSetting

\* C24: stopCapture is a no-op when not capturing; whenever a pending call
\* resolves, the handle is cleared and isCapturing is false; and the timer
\* of a call sends its forced kill only when the subprocess that call was
\* stopping has not exited (the timer of a call that resolved through
\* 'exit' signals nothing).
C24_StopCaptureTerminates ==
    [][ /\ \A t \in AllTasks :
               /\ ~isCapturing =>
                      stopCapture(Cur, t) = [Cur EXCEPT !.tasks[t].pc = "stopped"]
               /\ (tasks[t].pc = "stopWait" /\ tasks'[t].pc # "stopWait") =>
                      /\ ~isCapturing'
                      /\ captureProcess' = Null
        /\ staleTimers' < staleTimers =>
               \A p \in Pids : procs'[p].status = procs[p].status
      ]_vars

\* C25: when the capture subprocess cannot be spawned, the start handler
\* ends with isCapturing false, without a recorded handle and without an
\* armed watchdog, the failure having reached the handler's catch block
\* (no start is logged).
C25_SpawnFailure ==
    \A t \in TaskIds :
        (tasks[t].pc = "getJob" /\ ~isCapturing) =>
            \A hasName \in BOOLEAN :
                LET r == Return(afterGetJob(Cur, t, hasName, FALSE), t)
                IN  /\ ~r.isCapturing
                    /\ r.captureProcess = Null
                    /\ r.watchdogExpiry = watchdogExpiry
                    /\ r.lastTransition = lastTransition

\* the capture subprocess has exited on its own and its 'exit' was delivered
Crashed ==
    /\ ~isCapturing
    /\ captureProcess # Null
    /\ procs[captureProcess].status = "reaped"

\* C26: after a crash of the capture subprocess the flag is false and the
\* monitor decides on the flag as read at the tick: an active poll extends
\* no deadline, a stop poll signals and assembles nothing, a failed poll
\* finds no expiry to act on, and a start poll passes the start guard.
C26_DecisionsOnReReadFlag ==
    \A t \in TaskIds :
        (tasks[t].pc = "getStatus" /\ ~isFirstCheck /\ Crashed) =>
            /\ \A raw \in RawJobIds :
                   LET r == Return(checkStatus(Cur, t, "PRINTING", raw), t)
                   IN  IF lastPrinterState = "PRINTING" \/ JobIdOf(raw) = Null
                       THEN /\ r.watchdogExpiry = watchdogExpiry
                            /\ r.tasks[t] = IdleTask
                            /\ r.procs = procs
                            /\ r.asmCount = asmCount
                       ELSE r.tasks[t].pc = "getJob"
            /\ \A currentState \in PrinterState \ {"PRINTING"}, raw \in RawJobIds :
                   LET r == Return(checkStatus(Cur, t, currentState, raw), t)
                   IN  /\ r.tasks[t] = IdleTask
                       /\ r.procs = procs
                       /\ r.asmCount = asmCount
                       /\ r.frames = frames
                       /\ ~r.isCapturing
            /\ LET r == checkStatusCatch(Cur, t)
               IN  /\ r.tasks[t] = IdleTask
                   /\ r.procs = procs
                   /\ r.watchdogExpiry = watchdogExpiry

\* a poll is in flight after a crash, with the watchdog deadline passed and
\* the last observation active
C26_Witness ==
    /\ Crashed
    /\ ~isFirstCheck
    /\ lastPrinterState = "PRINTING"
    /\ watchdogExpiry # Null
    /\ now >= watchdogExpiry
    /\ frames # {}
    /\ \E t \in TaskIds : tasks[t].pc = "getStatus"

\* C27: when the notification command of a stop sequence ends, the frames
\* are gone and no capture runs; a failed notification leaves the program
\* in the state a successful one leaves it in, and nothing is thrown.
C27_NotificationFailure ==
    \A t \in TaskIds :
        tasks[t].pc = "notify" =>
            LET r == onNotifyExit(Cur, t, FALSE)
            IN  /\ frames = {}
                /\ ~isCapturing
                /\ ~r.threw
                /\ r = onNotifyExit(Cur, t, TRUE)

\* frames are on disk after an assembly was attempted, no capture runs and
\* no stop sequence is in progress: the frames a failed assembly left
PreservedFrames ==
    /\ frames # {}
    /\ ~isCapturing
    /\ ~isFirstCheck
    /\ lastTransition = "stop"
    /\ \E p \in Pids : asmCount[p] > 0
    /\ \A t \in AllTasks : tasks[t].pc \notin {"stopWait", "assemble", "notify"}

\* C28: frames left by a failed assembly are deleted by no later poll,
\* whatever it observes and whether or not its fetches succeed.
C28_PreservedFramesStay ==
    PreservedFrames =>
        \A t \in TaskIds :
            /\ tasks[t].pc = "getStatus" =>
                   /\ \A currentState \in PrinterState, raw \in RawJobIds :
                          frames \subseteq
                              Return(checkStatus(Cur, t, currentState, raw), t).frames
                   /\ frames \subseteq checkStatusCatch(Cur, t).frames
            /\ tasks[t].pc = "getJob" =>
                   /\ \A hasName \in BOOLEAN, spawnOk \in BOOLEAN :
                          frames \subseteq
                              Return(afterGetJob(Cur, t, hasName, spawnOk), t).frames
                   /\ frames \subseteq [Cur EXCEPT !.tasks[t] = IdleTask].frames

\* job identifiers a status can carry, one more than the polls of the
\* model draw, so that every recorded identifier has a different one
OtherJobIds == 1..(MaxJob + 1)

\* C29: while a capture runs and the last observation was active, an active
\* observation carrying a different job identifier starts no capture, stops
\* none, and leaves the recorded job identifier and the label as they are.
C29_DifferentJobIgnored ==
    \A t \in TaskIds :
        ( /\ tasks[t].pc = "getStatus"
          /\ ~isFirstCheck
          /\ isCapturing
          /\ lastPrinterState = "PRINTING"
          /\ currentPrintId # Null ) =>
            \A raw \in OtherJobIds \ {currentPrintId} :
                LET r == Return(checkStatus(Cur, t, "PRINTING", raw), t)
                IN  /\ r.procs = procs
                    /\ r.captureProcess = captureProcess
                    /\ r.isCapturing
                    /\ r.tasks[t] = IdleTask
                    /\ r.currentPrintFilename = currentPrintFilename
                    /\ r.currentPrintId = currentPrintId

\* C30: a poll classified as a start while a capture runs returns from
\* handlePrintStarted without throwing and without having spawned a
\* subprocess, deleted a frame, or changed the label or the deadline.
C30_StartWhileCapturingRejected ==
    \A t \in TaskIds :
        ( /\ tasks[t].pc = "getStatus"
          /\ isCapturing
          /\ isFirstCheck \/ lastPrinterState # "PRINTING" ) =>
            \A raw \in 1..MaxJob :
                LET r == checkStatus(Cur, t, "PRINTING", raw)
                IN  /\ r.tasks[t].pc = "ret"
                    /\ ~r.threw
                    /\ r.procs = procs
                    /\ r.captureProcess = captureProcess
                    /\ r.isCapturing
                    /\ r.frames = frames
                    /\ r.currentPrintFilename = currentPrintFilename
                    /\ r.watchdogExpiry = watchdogExpiry

\* a poll is in flight while a capture with frames and a deadline runs and
\* the last recorded observation is not active (every write of a non-active
\* lastPrinterState over an active one follows the finally block that
\* clears the label, so no label is recorded in such a state)
C30_Witness ==
    /\ isCapturing
    /\ ~isFirstCheck
    /\ lastPrinterState # "PRINTING"
    /\ frames # {}
    /\ watchdogExpiry # Null
    /\ \E t \in TaskIds : tasks[t].pc = "getStatus"

\* C31: whenever a poll is in flight while a capture runs, the recorded
\* lastPrinterState is the active value, so the poll cannot be classified
\* as a start and the guard of handlePrintStarted is never taken.
C31_GuardUnreachable ==
    \A t \in TaskIds :
        (tasks[t].pc = "getStatus" /\ isCapturing) =>
            /\ ~isFirstCheck
            /\ lastPrinterState = "PRINTING"

\* C32: when the 5 s timer of a stopCapture call that has already resolved
\* fires, it signals no subprocess and leaves isCapturing and the handle
\* of the capture then running as they are.
C32_StaleTimerHarmless ==
    [][ staleTimers' < staleTimers =>
            /\ procs' = procs
            /\ isCapturing' = isCapturing
            /\ captureProcess' = captureProcess ]_vars

\* C33: a step that deletes a frame file is taken in a state where no
\* capture is running.
C33_NoDeletionWhileCapturing ==
    [][ (frames \ frames' # {}) => ~isCapturing ]_vars

\* C34: in a step during which the encoder of a stop sequence keeps
\* running, no capture subprocess is spawned, and a start handler that
\* resumes after getJob in that step deletes no frame.
C34_NoStartDuringAssembly ==
    [][ (\E t \in AllTasks : tasks[t].pc = "assemble" /\ tasks'[t].pc = "assemble") =>
            /\ \A p \in Pids : ~SpawnedNow(p)
            /\ (\E t \in TaskIds : tasks[t].pc = "getJob" /\ tasks'[t].pc # "getJob") =>
                   frames \subseteq frames' ]_vars

\* C35: after the capture subprocess has exited on its own and left frames,
\* the poll that observes the device inactive starts an assembly, and so
\* does the watchdog check of a failed poll once the deadline has passed.
C35_AssemblyAfterCrash ==
    \A t \in TaskIds :
        ( /\ tasks[t].pc = "getStatus"
          /\ Crashed
          /\ frames # {}
          /\ lastPrinterState = "PRINTING" ) =>
            /\ \A currentState \in PrinterState \ {"PRINTING"}, raw \in RawJobIds :
                   LET r == Return(checkStatus(Cur, t, currentState, raw), t)
                   IN  \E p \in Pids : r.asmCount[p] > asmCount[p]
            /\ (watchdogExpiry # Null /\ now >= watchdogExpiry) =>
                   LET r == checkStatusCatch(Cur, t)
                   IN  \E p \in Pids : r.asmCount[p] > asmCount[p]

\* a completion forced by the watchdog has begun and has not returned
ForcedCompletionPending ==
    \E w \in TaskIds : tasks[w].origin = "watchdog" /\ tasks[w].pc # "idle"

\* a stop sequence has run to its end, no capture runs, and the recorded
\* observation is still active: the state a forced completion leaves
ForcedCompletionDone ==
    /\ ~isCapturing
    /\ ~isFirstCheck
    /\ lastTransition = "stop"
    /\ lastPrinterState = "PRINTING"
    /\ \A w \in TaskIds : tasks[w].pc \in {"idle", "getStatus"}

\* C36: once the watchdog has forced a completion and as long as no
\* inactive observation has been recorded, an active poll spawns nothing
\* and starts no assembly, and an inactive poll starts no assembly either.
C36_AfterForcedCompletion ==
    \A t \in TaskIds :
        ( /\ tasks[t].pc = "getStatus"
          /\ lastPrinterState = "PRINTING"
          /\ ForcedCompletionPending \/ ForcedCompletionDone ) =>
            \A currentState \in PrinterState, raw \in RawJobIds :
                LET r == Return(checkStatus(Cur, t, currentState, raw), t)
                IN  /\ r.procs = procs
                    /\ r.asmCount = asmCount
                    /\ r.tasks[t] = IdleTask

\* C37: on the first poll an active observation deletes no frame at its
\* classification, with or without a job identifier, and a handler that
\* resumes the capture after getJob deletes none either.
C37_FirstPollActiveKeepsFrames ==
    \A t \in TaskIds :
        /\ (tasks[t].pc = "getStatus" /\ isFirstCheck) =>
               \A raw \in RawJobIds :
                   frames \subseteq
                       Return(checkStatus(Cur, t, "PRINTING", raw), t).frames
        /\ (tasks[t].pc = "getJob" /\ tasks[t].shouldResume /\ ~isCapturing) =>
               \A hasName \in BOOLEAN, spawnOk \in BOOLEAN :
                   frames \subseteq
                       Return(afterGetJob(Cur, t, hasName, spawnOk), t).frames

\* C38: while no status snapshot has been received, a failed poll leaves
\* isFirstCheck true and touches neither frames nor subprocesses, and the
\* poll that succeeds takes the first-poll decision: resume on an active
\* snapshot with a job identifier, discard the frames otherwise.
C38_FirstPollAfterFailures ==
    \A t \in TaskIds :
        (tasks[t].pc = "getStatus" /\ isFirstCheck) =>
            /\ LET c == checkStatusCatch(Cur, t)
               IN  /\ c.isFirstCheck
                   /\ c.frames = frames
                   /\ c.procs = procs
                   /\ c.lastPrinterState = lastPrinterState
            /\ \A currentState \in PrinterState, raw \in RawJobIds :
                   LET r == checkStatus(Cur, t, currentState, raw)
                   IN  /\ ~r.isFirstCheck
                       /\ IF currentState = "PRINTING" /\ JobIdOf(raw) # Null
                          THEN /\ r.tasks[t].pc = "getJob"
                               /\ r.tasks[t].shouldResume = (frames # {})
                               /\ r.frames = frames
                          ELSE r.frames = {}

\* a poll is in flight after earlier polls have failed, frames of a previous
\* run are on disk and no snapshot has been received yet
C38_Witness ==
    /\ isFirstCheck
    /\ monitoringInterval
    /\ now >= 2
    /\ frames # {}
    /\ \E t \in TaskIds : tasks[t].pc = "getStatus"

\* C39: whenever a start handler resumes after its label fetch while no
\* capture runs, whether the fetch succeeded or failed, a capture
\* subprocess is spawned and, when the watchdog is enabled, the deadline
\* is armed at now + timeout.
C39_LabelFailureStillStarts ==
    [][ \A t \in TaskIds :
            (tasks[t].pc = "getJob" /\ tasks'[t].pc # "getJob" /\ ~isCapturing) =>
                /\ \E p \in Pids : SpawnedNow(p)
                /\ watchdogTimeout > 0 => watchdogExpiry' = now + watchdogTimeout
      ]_vars

\* C40: once stopMonitoring and startMonitoring have both returned and the
\* monitor is stopped, no polling timer is installed and no checkStatus is
\* in progress or about to run.
C40_NoTimerAfterStop ==
    ( /\ mainPc = "running"
      /\ ~isMonitoring
      /\ tasks[ShutdownTask].pc = "idle"
      /\ \A t \in TaskIds : tasks[t].initial => tasks[t].pc = "idle" ) =>
        ~monitoringInterval

====
